---- MODULE Spec2Model ----
(***************************************************************************)
(* ChronoPedia Interface (src/app.py): the page-state controller of a      *)
(* Streamlit script.  The script is executed top to bottom once per user   *)
(* event and once more after every st.rerun(); st.session_state persists   *)
(* between executions.  One page execution up to its end, to st.rerun() or *)
(* to the start of the assistant's fragment stream is one step; the        *)
(* fragment stream is consumed one fragment per step.                      *)
(*                                                                         *)
(* A text (a Python str) is a sequence of tokens; concatenation is \o and  *)
(* the empty string is << >>.  Python's None is the empty tuple and a      *)
(* present value x is <<x>>.                                               *)
(***************************************************************************)
EXTENDS Naturals, Sequences, FiniteSets

VARIABLES
    GEMINI_CONFIGURED,  \* app.py:23-27, fixed for the process
    search_topic,       \* st.session_state.search_topic
    last_article,       \* st.session_state.last_article
    pdf_buffer,         \* st.session_state.pdf_buffer
    chat_history,       \* st.session_state.chat_history
    pc,                 \* "run": a page execution is due (first load, st.rerun)
                        \* "idle": the page is rendered and waits for an event
                        \* "awaiting", "streaming": inside the loop of line 278
    options,            \* the candidate buttons the last execution rendered
    shown,              \* the elements the last execution rendered
    full_response,      \* local of the chat handler, line 277
    final_prompt,       \* the prompt of the latest text-generation call
    trigger,            \* the widget that fired for the latest step
    lookup,             \* the lookup call of the latest step, if it made one
    chunks,             \* the fragments received in the current stream
    sent,               \* chat messages submitted since the last search
    replied,            \* assistant replies completed since the last search
    chain,              \* while a rerun is due: the st.rerun() calls in a row
    article_query,      \* the query of the lookup that gave last_article
    before              \* the state the latest step started from

vars == <<GEMINI_CONFIGURED, search_topic, last_article, pdf_buffer,
          chat_history, pc, options, shown, full_response, final_prompt,
          trigger, lookup, chunks, sent, replied, chain, article_query,
          before>>

(***************************************************************************)
(* Bounds of the model.                                                    *)
(***************************************************************************)
MaxTurns == 4
MaxFragments == 2
MaxCandidates == 6

(***************************************************************************)
(* Values.                                                                 *)
(***************************************************************************)
None == << >>
Some(x) == <<x>>

Min(a, b) == IF a <= b THEN a ELSE b
Take(s, n) == SubSeq(s, 1, Min(n, Len(s)))
Range(s) == {s[i] : i \in 1..Len(s)}
IsPrefix(s, t) == Len(s) <= Len(t) /\ SubSeq(t, 1, Len(s)) = s

RECURSIVE Flatten(_)
Flatten(ss) == IF ss = << >> THEN << >> ELSE Head(ss) \o Flatten(Tail(ss))

\* str.replace(old, new) on a text, token by token
RECURSIVE Replace(_, _, _)
Replace(text, old, new) ==
    IF text = << >> THEN << >>
    ELSE <<(IF Head(text) = old THEN new ELSE Head(text))>>
             \o Replace(Tail(text), old, new)

\* The query texts a user types into the search box.
Queries == {<< >>, <<"x">>, <<"q">>}

\* The chat messages a user types.
Messages == {<<"hi">>}

\* The text fragments of a stream, in the order the service delivers them; a
\* stream is a prefix of these.
FragmentTexts == << <<"a">>, <<"b">>, << >>, <<"c">> >>

\* The candidate titles of the lookup service, in its order.
CandidateNames == <<"x", "y", "z", "u", "v", "w", "t">>

Response(kind, title, summary, url, opts) ==
    [kind |-> kind, title |-> title, summary |-> summary, url |-> url,
     options |-> opts]

\* What one call of wikipedia.page can end in: a page, DisambiguationError
\* with its options, or any other exception.  The service answers each call
\* on its own: the same query may fail once and resolve the next time, and a
\* page's title is the service's (auto_suggest, redirect), not the query.
PageResponses ==
    { Response("page", <<"x">>, <<"sx", "\n", "tx">>, <<"ux">>, << >>),
      Response("page", <<"y">>, <<"sy">>, <<"uy">>, << >>) }

DisambiguationResponses ==
    { Response("disambiguation", << >>, << >>, << >>,
               [i \in 1..n |-> <<CandidateNames[i]>>]) : n \in {MaxCandidates} }
    \cup { Response("disambiguation", << >>, << >>, << >>, <<<<"y">>, << >>>>),
           Response("disambiguation", << >>, << >>, << >>,
                    <<<<"x">>, <<"x">>, <<"y">>>>) }

ErrorResponses == { Response("error", << >>, << >>, << >>, << >>) }

Responses == PageResponses \cup DisambiguationResponses \cup ErrorResponses

Trigger(kind, text) == [kind |-> kind, text |-> text]

Session ==
    [search_topic |-> search_topic, last_article |-> last_article,
     pdf_buffer |-> pdf_buffer, chat_history |-> chat_history]

(***************************************************************************)
(* The parts of the script, each a function of the session state.          *)
(***************************************************************************)

\* create_pdf: the story handed to doc.build, in order
create_pdf(title, summary, url) ==
    << [flowable |-> "Paragraph", style |-> "TitleStyle", text |-> title],
       [flowable |-> "Paragraph", style |-> "SummaryStyle",
        text |-> Replace(summary, "\n", "<br/>")],
       [flowable |-> "Spacer", style |-> "1x24", text |-> << >>],
       [flowable |-> "Paragraph", style |-> "URLStyle",
        text |-> <<"Source: <a href='">> \o url \o <<"'>">> \o url \o <<"</a>">>] >>

\* lines 206-208: the Generate PDF Report button was pressed
GeneratePdf(s) ==
    LET article == s.last_article[1]
    IN  [s EXCEPT !.pdf_buffer =
            Some(create_pdf(article.title, article.summary, article.url))]

\* Variants of the handlers below, each with one slip.
InitiateSearch_KeepsTranscript(s, search_input) ==
    [s EXCEPT !.search_topic = search_input,
              !.last_article = None,
              !.pdf_buffer = None]

InitiateSearch_KeepsExport(s, search_input) ==
    [s EXCEPT !.search_topic = search_input,
              !.last_article = None,
              !.chat_history = << >>]

InitiateSearch_KeepsArticle(s, search_input) ==
    [s EXCEPT !.search_topic = search_input,
              !.pdf_buffer = None,
              !.chat_history = << >>]

\* lines 221-224: the Initiate Search button was pressed
InitiateSearch(s, search_input) ==
    [s EXCEPT !.search_topic = search_input,
              !.last_article = None,
              !.pdf_buffer = None,
              !.chat_history = << >>]

StoreArticle_TitleFromQuery(s, page) ==
    [s EXCEPT !.last_article =
        Some([title |-> s.search_topic, summary |-> page.summary, url |-> page.url])]

\* line 231: the lookup returned a page
StoreArticle(s, page) ==
    [s EXCEPT !.last_article =
        Some([title |-> page.title, summary |-> page.summary, url |-> page.url])]

OfferedOptions_All(e) == e.options

\* line 235: the candidates the loop goes through
OfferedOptions(e) == Take(e.options, 5)

\* line 236: the buttons the loop renders.  st.button raises on a key
\* (f"option_{option}") already used in this execution, so the loop stops
\* at the first repeated candidate.
RECURSIVE RenderedOptions(_)
RenderedOptions(offered) ==
    IF offered = << >> THEN << >>
    ELSE LET init == RenderedOptions(SubSeq(offered, 1, Len(offered) - 1))
         IN  IF /\ Len(init) = Len(offered) - 1
                /\ offered[Len(offered)] \notin Range(init)
             THEN offered
             ELSE init

LookupDue_IgnoresTopic(s) == s.last_article = None

LookupDue_IgnoresArticle(s) == s.search_topic # << >>

\* line 227
LookupDue(s) == s.search_topic # << >> /\ s.last_article = None

SelectOption_Ignored(s, option) == s

SelectOption_ClearsChat(s, option) ==
    [s EXCEPT !.search_topic = option, !.chat_history = << >>]

\* line 237: a candidate's button was pressed
SelectOption(s, option) == [s EXCEPT !.search_topic = option]

AppendUser_Deferred(s, prompt) == s

\* line 268
AppendUser(s, prompt) ==
    [s EXCEPT !.chat_history = Append(@, [role |-> "user", text |-> prompt])]

FinalPrompt_Raw(s, prompt) == prompt

\* lines 269-272
FinalPrompt(s, prompt) ==
    IF s.last_article # None
    THEN LET article == s.last_article[1]
         IN  <<"Based on this article summary about '">> \o article.title
             \o <<"': '">> \o article.summary
             \o <<"', answer the user's question: '">> \o prompt \o <<"'">>
    ELSE prompt

Accumulate_Prepend(response, chunk_text) == chunk_text \o response

\* line 279
Accumulate(response, chunk_text) == response \o chunk_text

AppendAssistant_AtFront(s, response) ==
    [s EXCEPT !.chat_history = <<[role |-> "assistant", text |-> response]>> \o @]

\* line 282
AppendAssistant(s, response) ==
    [s EXCEPT !.chat_history = Append(@, [role |-> "assistant", text |-> response])]

AssistantEnabled_Always == TRUE

\* line 253: whether the assistant panel offers the chat
AssistantEnabled == GEMINI_CONFIGURED

(***************************************************************************)
(* One page execution, lines 188-283 up to the stream: `t` is the widget   *)
(* that fired and `resp` what wikipedia.page ends in if it is called.      *)
(* The result holds the session state, the next pc, the candidate buttons  *)
(* and elements rendered, the lookup made and the prompt sent.             *)
(***************************************************************************)
Outcome(s, nextpc, opts, elems, call, prompt) ==
    [s |-> s, pc |-> nextpc, options |-> opts, shown |-> elems,
     lookup |-> call, prompt |-> prompt]

\* lines 251-283, up to the call of get_gemini_response
AssistantPanel(s, t, opts, elems, call) ==
    IF ~AssistantEnabled
    THEN Outcome(s, "idle", opts, elems \cup {"config_warning"}, call, None)
    ELSE IF t.kind = "chat"
         THEN LET s1 == AppendUser(s, t.text)
              IN  Outcome(s1, "awaiting", opts, elems \cup {"chat_input"}, call,
                          Some(FinalPrompt(s1, t.text)))
         ELSE Outcome(s, "idle", opts, elems \cup {"chat_input"}, call, None)

\* lines 242-249
ResultPanel(s, t, opts, elems, call) ==
    AssistantPanel(s, t, opts,
                   elems \cup (IF s.last_article # None THEN {"article"}
                               ELSE {"awaiting_query"}),
                   call)

LookupError_ForgetsTopic(s) == [s EXCEPT !.search_topic = << >>]

\* lines 239-240: the handler only shows the message
LookupError(s) == s

\* lines 227-240
LookupBlock(s, t, elems, resp) ==
    IF LookupDue(s)
    THEN LET call == Some([query |-> s.search_topic, resp |-> resp])
         IN  CASE resp.kind = "page" ->
                    Outcome(StoreArticle(s, resp), "run", << >>, elems, call, None)
               [] resp.kind = "disambiguation" ->
                    LET offered == OfferedOptions(resp)
                        rendered == RenderedOptions(offered)
                    IN  IF t.kind = "option" /\ t.text \in Range(rendered)
                        THEN Outcome(SelectOption(s, t.text), "run", << >>,
                                     elems \cup {"ambiguity"}, call, None)
                        ELSE IF Len(rendered) < Len(offered)
                        THEN Outcome(s, "idle", rendered,
                                     elems \cup {"ambiguity", "exception"},
                                     call, None)
                        ELSE ResultPanel(s, t, rendered,
                                         elems \cup {"ambiguity"}, call)
               [] OTHER ->
                    ResultPanel(LookupError(s), t, << >>,
                                elems \cup {"not_found"}, call)
    ELSE ResultPanel(s, t, << >>, elems, None)

\* lines 219-225
SearchPanel(s, t, elems, resp) ==
    IF t.kind = "search"
    THEN Outcome(InitiateSearch(s, t.text), "run", << >>,
                 elems \cup {"search"}, None, None)
    ELSE LookupBlock(s, t, elems \cup {"search"}, resp)

\* lines 201-212
Sidebar(s, t, resp) ==
    IF s.last_article # None
    THEN LET s1 == IF t.kind = "generate_pdf" THEN GeneratePdf(s) ELSE s
         IN  SearchPanel(s1, t,
                         {"generate_pdf"} \cup
                             (IF s1.pdf_buffer # None THEN {"download"} ELSE {}),
                         resp)
    ELSE SearchPanel(s, t, {"export_info"}, resp)

Page(t, resp) == Sidebar(Session, t, resp)

(***************************************************************************)
(* The state machine.                                                      *)
(***************************************************************************)
Snapshot ==
    [search_topic |-> search_topic, last_article |-> last_article,
     pdf_buffer |-> pdf_buffer, chat_history |-> chat_history,
     pc |-> pc, options |-> options, trigger |-> trigger, lookup |-> lookup]

\* lines 188-195 give a new session its four entries; the first page
\* execution is due.
Init ==
    /\ GEMINI_CONFIGURED \in BOOLEAN
    /\ search_topic = << >>
    /\ last_article = None
    /\ pdf_buffer = None
    /\ chat_history = << >>
    /\ pc = "run"
    /\ options = << >>
    /\ shown = {}
    /\ full_response = << >>
    /\ final_prompt = None
    /\ trigger = Trigger("load", << >>)
    /\ lookup = None
    /\ chunks = << >>
    /\ sent = 0
    /\ replied = 0
    /\ chain = 0
    /\ article_query = None
    /\ before = [search_topic |-> << >>, last_article |-> None,
                 pdf_buffer |-> None, chat_history |-> << >>,
                 pc |-> "run", options |-> << >>,
                 trigger |-> Trigger("load", << >>), lookup |-> None]

\* What wikipedia.page may answer in an execution for the widget `t`; when
\* line 227 skips the call there is nothing to choose.
Answers(t) ==
    IF t.kind # "search" /\ LookupDue(Session)
    THEN Responses
    ELSE ErrorResponses

\* The script runs once for the widget `t`.
Execute(t, resp) ==
    LET o == Page(t, resp)
    IN  /\ search_topic' = o.s.search_topic
        /\ last_article' = o.s.last_article
        /\ pdf_buffer' = o.s.pdf_buffer
        /\ chat_history' = o.s.chat_history
        /\ pc' = o.pc
        /\ options' = o.options
        /\ shown' = o.shown
        /\ lookup' = o.lookup
        /\ final_prompt' = IF o.prompt # None THEN o.prompt ELSE final_prompt
        /\ full_response' = << >>
        /\ chunks' = << >>
        /\ trigger' = t
        /\ sent' = IF t.kind = "search" THEN 0
                   ELSE IF t.kind = "chat" THEN sent + 1 ELSE sent
        /\ replied' = IF t.kind = "search" THEN 0 ELSE replied
        /\ chain' = IF o.pc # "run" THEN 0
                    ELSE IF t.kind = "rerun" THEN chain + 1 ELSE 1
        /\ article_query' =
              IF o.s.last_article = last_article THEN article_query
              ELSE IF o.s.last_article = None THEN None
              ELSE Some(o.lookup[1].query)
        /\ before' = Snapshot
        /\ UNCHANGED GEMINI_CONFIGURED

\* The first execution of a session, and the one st.rerun() asks for: no
\* widget fires (a button's or the chat input's value lasts one execution).
Rerun ==
    /\ pc = "run"
    /\ \E resp \in Answers(Trigger("rerun", << >>)) :
           Execute(Trigger("rerun", << >>), resp)

\* The user presses Initiate Search with `q` in the search box.
Search(q) ==
    /\ pc = "idle"
    /\ "search" \in shown
    /\ \E resp \in Answers(Trigger("search", q)) :
           Execute(Trigger("search", q), resp)

\* The user presses the button of the i-th candidate offered.
SelectCandidate(i) ==
    /\ pc = "idle"
    /\ i \in 1..Len(options)
    /\ \E resp \in Answers(Trigger("option", options[i])) :
           Execute(Trigger("option", options[i]), resp)

\* The user presses Generate PDF Report.
Export ==
    /\ pc = "idle"
    /\ "generate_pdf" \in shown
    /\ \E resp \in Answers(Trigger("generate_pdf", << >>)) :
           Execute(Trigger("generate_pdf", << >>), resp)

\* The user submits `m` in the chat input.
SendMessage(m) ==
    /\ pc = "idle"
    /\ "chat_input" \in shown
    /\ Len(chat_history) + 2 <= MaxTurns
    /\ 2 * (sent + 1) <= MaxTurns
    /\ \E resp \in Answers(Trigger("chat", m)) :
           Execute(Trigger("chat", m), resp)

\* The user commits an edit of the search box without pressing a button:
\* the script runs with no button fired.
EditQuery ==
    /\ pc = "idle"
    /\ "search" \in shown
    /\ \E resp \in Answers(Trigger("text_input", << >>)) :
           Execute(Trigger("text_input", << >>), resp)

StreamFrame == <<GEMINI_CONFIGURED, search_topic, last_article, pdf_buffer,
                 options, final_prompt, sent, article_query>>

\* lines 278-280: the stream delivers one more fragment
StreamFragment(f) ==
    /\ pc \in {"awaiting", "streaming"}
    /\ Len(chunks) < MaxFragments
    /\ f = FragmentTexts[Len(chunks) + 1]
    /\ full_response' = Accumulate(full_response, f)
    /\ chunks' = Append(chunks, f)
    /\ pc' = "streaming"
    /\ trigger' = Trigger("fragment", f)
    /\ lookup' = None
    /\ before' = Snapshot
    /\ chain' = 0
    /\ UNCHANGED <<StreamFrame, chat_history, shown, replied>>

\* lines 281-283: the stream ends, the reply is stored and a rerun asked for
StreamComplete ==
    /\ pc \in {"awaiting", "streaming"}
    /\ chat_history' = AppendAssistant(Session, full_response).chat_history
    /\ replied' = replied + 1
    /\ pc' = "run"
    /\ chain' = 1
    /\ trigger' = Trigger("complete", << >>)
    /\ lookup' = None
    /\ before' = Snapshot
    /\ UNCHANGED <<StreamFrame, shown, full_response, chunks>>

\* lines 275-280: get_gemini_response, the iteration or chunk.text raises (or
\* a new event stops the script); nothing catches it and the execution ends
StreamFail ==
    /\ pc \in {"awaiting", "streaming"}
    /\ pc' = "idle"
    /\ shown' = shown \cup {"exception"}
    /\ trigger' = Trigger("fail", << >>)
    /\ lookup' = None
    /\ before' = Snapshot
    /\ chain' = 0
    /\ UNCHANGED <<StreamFrame, chat_history, full_response, chunks, replied>>

Next ==
    \/ Rerun
    \/ \E q \in Queries : Search(q)
    \/ \E i \in 1..5 : SelectCandidate(i)
    \/ Export
    \/ \E m \in Messages : SendMessage(m)
    \/ EditQuery
    \/ \E f \in Range(FragmentTexts) : StreamFragment(f)
    \/ StreamComplete
    \/ StreamFail

Spec == Init /\ [][Next]_vars

(***************************************************************************)
(* Properties.  `before` is the state the latest step started from, so a   *)
(* statement about one step reads as a state predicate.                    *)
(***************************************************************************)
Roles(h) == [i \in 1..Len(h) |-> h[i].role]
Count(h, role) == Cardinality({i \in 1..Len(h) : h[i].role = role})
Article(resp) == [title |-> resp.title, summary |-> resp.summary, url |-> resp.url]

\* The latest step is the execution st.rerun() asked for at line 238, after a
\* candidate's button took effect (line 232 asks for one with an Article).
AfterSelection ==
    /\ before.trigger.kind = "option"
    /\ before.pc = "run"
    /\ before.last_article = None

\* C1: a step that handles Initiate Search, whatever the query, ends with the
\* query as the search topic, no Article, an empty transcript and no cached
\* export, and it makes no lookup: a rerun is due instead.
C1_SearchResets ==
    trigger.kind = "search" =>
        /\ search_topic = trigger.text
        /\ last_article = None
        /\ chat_history = << >>
        /\ pdf_buffer = None
        /\ lookup = None
        /\ pc = "run"

\* C1 witness: a search submitted while an Article, a transcript and a cached
\* export were all present.
C1_Witness ==
    /\ trigger.kind = "search"
    /\ before.last_article # None
    /\ before.chat_history # << >>
    /\ before.pdf_buffer # None
    /\ search_topic # << >>

\* C2: in every step that changes the Article, the resulting state has an
\* empty transcript and no cached export.
C2_ArticleChangeDiscards ==
    last_article # before.last_article =>
        chat_history = << >> /\ pdf_buffer = None

\* C3: when as many replies have completed as messages were sent since the
\* last search (N each), the transcript has 2N entries, user at the odd and
\* assistant at the even positions.
C3_Alternation ==
    sent = replied =>
        /\ Len(chat_history) = 2 * sent
        /\ \A i \in 1..Len(chat_history) :
              chat_history[i].role = IF i % 2 = 1 THEN "user" ELSE "assistant"

\* C3 witness: two messages sent and two replies completed on one Article.
C3_Witness ==
    /\ sent = 2
    /\ replied = 2
    /\ last_article # None
    /\ Roles(chat_history) = <<"user", "assistant", "user", "assistant">>

C5_TitleIsCandidate ==
    AfterSelection =>
        /\ lookup # None
        /\ lookup[1].query = before.trigger.text
        /\ lookup[1].resp.kind = "page" =>
              last_article # None /\ last_article[1].title = before.trigger.text

\* C5 amended: the execution that handles a candidate's button first repeats
\* the lookup of the current topic; the candidate becomes the search topic
\* (and a rerun is due, with no Article) exactly when that lookup is again
\* ambiguous and renders the candidate's button (the candidate is among its
\* first five, before any repeated title), otherwise the topic stays.  The
\* execution after a selection that took effect invokes the lookup with the
\* candidate as the query when the candidate is not empty, and a page it
\* returns is stored with the service's title, summary and url.
C5_SelectionRequeries ==
    /\ trigger.kind = "option" =>
          /\ lookup # None
          /\ lookup[1].query = before.search_topic
          /\ IF /\ lookup[1].resp.kind = "disambiguation"
                /\ trigger.text \in
                      Range(RenderedOptions(Take(lookup[1].resp.options, 5)))
             THEN search_topic = trigger.text /\ pc = "run" /\ last_article = None
             ELSE search_topic = before.search_topic
    /\ AfterSelection /\ before.trigger.text # << >> =>
          /\ lookup # None
          /\ lookup[1].query = before.trigger.text
          /\ lookup[1].resp.kind = "page" =>
                last_article = Some(Article(lookup[1].resp))
    /\ AfterSelection /\ before.trigger.text = << >> => lookup = None

\* C5 witness: a selected candidate resolved to a page whose title is not
\* the candidate.
C5_Witness ==
    /\ AfterSelection
    /\ lookup # None
    /\ lookup[1].query = before.trigger.text
    /\ lookup[1].resp.kind = "page"
    /\ last_article # None
    /\ last_article[1].title # before.trigger.text

\* C6: a page execution triggered by a chat message does not invoke the
\* lookup again for a query whose lookup in the step before ended in an
\* error.
C6_NoRetry ==
    /\ before.lookup # None
    /\ before.lookup[1].resp.kind = "error"
    /\ trigger.kind = "chat"
    /\ lookup # None
    => lookup[1].query # before.lookup[1].query

\* C7: a cached export comes into being only in a step that handles the
\* Generate PDF Report button with an Article loaded, and whenever one
\* exists an Article is loaded and the export is create_pdf of that
\* Article's title, summary and url.
C7_ExportOfCurrentArticle ==
    /\ pdf_buffer # None =>
          /\ last_article # None
          /\ pdf_buffer = Some(create_pdf(last_article[1].title,
                                          last_article[1].summary,
                                          last_article[1].url))
    /\ pdf_buffer # None /\ pdf_buffer # before.pdf_buffer =>
          /\ trigger.kind = "generate_pdf"
          /\ before.last_article # None
          /\ before.last_article = last_article

\* C7 witness: an export was just generated for an Article whose summary has
\* a line break, which the export holds as <br/>.
C7_Witness ==
    /\ trigger.kind = "generate_pdf"
    /\ before.pdf_buffer = None
    /\ pdf_buffer # None
    /\ last_article[1].summary = <<"sx", "\n", "tx">>
    /\ pdf_buffer[1][2].text = <<"sx", "<br/>", "tx">>

\* C8: across every step that does not handle Initiate Search, the
\* transcript before the step is a prefix of the transcript after it.
C8_AppendOnly ==
    trigger.kind # "search" => IsPrefix(before.chat_history, chat_history)

\* C8 witness: a candidate was selected, and took effect, with a transcript
\* present, which the step kept.
C8_Witness ==
    /\ trigger.kind = "option"
    /\ pc = "run"
    /\ search_topic # before.search_topic
    /\ before.chat_history # << >>
    /\ chat_history = before.chat_history

\* C9: a lookup that returns a page stores an Article with the response's
\* title, summary and url; the Article changes only from none to such a
\* response, or to none in a step that handles Initiate Search.
C9_ArticleVerbatim ==
    /\ lookup # None /\ lookup[1].resp.kind = "page" =>
          last_article = Some(Article(lookup[1].resp))
    /\ last_article # before.last_article =>
          \/ /\ before.last_article = None
             /\ lookup # None
             /\ lookup[1].resp.kind = "page"
             /\ last_article = Some(Article(lookup[1].resp))
          \/ /\ last_article = None
             /\ trigger.kind = "search"

\* C9 witness: a page was stored whose title is not the query.
C9_Witness ==
    /\ lookup # None
    /\ lookup[1].resp.kind = "page"
    /\ lookup[1].query = <<"q">>
    /\ last_article = Some(Article(lookup[1].resp))
    /\ before.last_article = None

\* C10: the transcript holds one assistant ChatTurn per completed stream, so
\* none for a turn that is awaiting or streaming, whose last entry is the
\* user's; a fragment leaves the transcript as it is; and completion appends
\* exactly one assistant ChatTurn whose text is the received fragments
\* concatenated in arrival order.
C10_ReplyOnCompletion ==
    /\ Count(chat_history, "assistant") = replied
    /\ pc \in {"awaiting", "streaming"} =>
          /\ chat_history # << >>
          /\ chat_history[Len(chat_history)].role = "user"
          /\ full_response = Flatten(chunks)
    /\ trigger.kind = "fragment" => chat_history = before.chat_history
    /\ trigger.kind = "complete" =>
          chat_history = Append(before.chat_history,
                                [role |-> "assistant", text |-> Flatten(chunks)])

\* C10 witness: a stream of two fragments completed.
C10_Witness ==
    /\ trigger.kind = "complete"
    /\ chunks = << <<"a">>, <<"b">> >>
    /\ chat_history[Len(chat_history)] = [role |-> "assistant", text |-> <<"a", "b">>]

\* C10, the empty stream: completion with no fragment stores the empty text.
C10_EmptyStream ==
    /\ trigger.kind = "complete"
    /\ chunks = << >>
    /\ chat_history[Len(chat_history)] = [role |-> "assistant", text |-> << >>]

\* C11: a step in which the text-generation call or its stream fails appends
\* no assistant ChatTurn and keeps the transcript, whose last entry is the
\* user's message of this turn, together with the Article, the search topic
\* and the cached export; the execution ends there, and the page keeps its
\* search button and chat input, so the session takes further events.
C11_StreamFailure ==
    trigger.kind = "fail" =>
        /\ chat_history = before.chat_history
        /\ chat_history # << >>
        /\ chat_history[Len(chat_history)].role = "user"
        /\ Count(chat_history, "assistant") = replied
        /\ last_article = before.last_article
        /\ search_topic = before.search_topic
        /\ pdf_buffer = before.pdf_buffer
        /\ pc = "idle"
        /\ {"search", "chat_input"} \subseteq shown
        /\ \A q \in Queries : ENABLED Search(q)

\* C11 witness: a stream failed after its first fragment, with an Article
\* and a cached export present; the user's message is the last entry.
C11_Witness ==
    /\ trigger.kind = "fail"
    /\ before.pc = "streaming"
    /\ last_article # None
    /\ pdf_buffer # None
    /\ chat_history[Len(chat_history)] = [role |-> "user", text |-> <<"hi">>]

\* C12: in a step that handles a chat message and reaches the handler, the
\* prompt sent is the combined prompt of the loaded Article's title and
\* summary and the message, or the message itself when no Article is
\* loaded, and the ChatTurn stored is the message itself.
C12_Prompt ==
    trigger.kind = "chat" /\ pc = "awaiting" =>
        /\ last_article = before.last_article
        /\ final_prompt =
              Some(IF last_article # None
                   THEN <<"Based on this article summary about '">>
                        \o last_article[1].title \o <<"': '">>
                        \o last_article[1].summary
                        \o <<"', answer the user's question: '">>
                        \o trigger.text \o <<"'">>
                   ELSE trigger.text)
        /\ chat_history =
              Append(before.chat_history, [role |-> "user", text |-> trigger.text])

\* C12 witness: a message sent with an Article loaded, the prompt sent not
\* being the message.
C12_Witness ==
    /\ trigger.kind = "chat"
    /\ pc = "awaiting"
    /\ last_article # None
    /\ final_prompt # Some(trigger.text)
    /\ chat_history[Len(chat_history)].text = trigger.text

\* C13: an execution whose lookup ends ambiguous stores no Article and,
\* unless a candidate's button fired in it, offers exactly the first
\* min(5, k) of the service's k candidates, in the service's order.
C13_CandidatesOffered ==
    lookup # None /\ lookup[1].resp.kind = "disambiguation" =>
        /\ last_article = None
        /\ Len(options) <= 5
        /\ pc = "idle" =>
              LET k == Len(lookup[1].resp.options)
              IN  options = [i \in 1..(IF k < 5 THEN k ELSE 5) |->
                                lookup[1].resp.options[i]]

\* C13 restricted to candidate lists without a repeated title among the
\* first five: this much holds.
C13_DistinctCandidatesOffered ==
    /\ lookup # None
    /\ lookup[1].resp.kind = "disambiguation"
    /\ LET k == Len(lookup[1].resp.options)
           n == IF k < 5 THEN k ELSE 5
       IN  \A i, j \in 1..n :
              lookup[1].resp.options[i] = lookup[1].resp.options[j] => i = j
    => /\ last_article = None
       /\ Len(options) <= 5
       /\ pc = "idle" =>
             LET k == Len(lookup[1].resp.options)
             IN  options = [i \in 1..(IF k < 5 THEN k ELSE 5) |->
                               lookup[1].resp.options[i]]

\* A list of more than five distinct candidates was cut to five.
C13_CutToFive ==
    /\ lookup # None
    /\ lookup[1].resp.kind = "disambiguation"
    /\ Len(lookup[1].resp.options) > 5
    /\ Len(options) = 5
    /\ pc = "idle"

\* C14: an execution whose lookup ends in an error leaves no Article, the
\* search topic and the cached export as they were, the transcript as it
\* was but for the user's message when the execution handles one, and shows
\* the not-found message; the search button stays, a search submitted next
\* is taken, and the execution after any search stores the page its lookup
\* returns.
C14_LookupFailure ==
    /\ lookup # None /\ lookup[1].resp.kind = "error" =>
          /\ last_article = None
          /\ search_topic = before.search_topic
          /\ pdf_buffer = before.pdf_buffer
          /\ chat_history =
                IF trigger.kind = "chat"
                THEN Append(before.chat_history,
                            [role |-> "user", text |-> trigger.text])
                ELSE before.chat_history
          /\ "not_found" \in shown
          /\ "search" \in shown
          /\ pc = "idle" => \A q \in Queries : ENABLED Search(q)
    /\ /\ before.lookup # None
       /\ before.lookup[1].resp.kind = "error"
       /\ trigger.kind = "search"
       => search_topic = trigger.text /\ pc = "run" /\ last_article = None
    /\ /\ before.trigger.kind = "search"
       /\ lookup # None
       /\ lookup[1].resp.kind = "page"
       => last_article = Some(Article(lookup[1].resp))

\* C14 witness: right after an execution whose lookup failed and showed the
\* not-found message, a new search with a query was taken.
C14_Witness ==
    /\ before.lookup # None
    /\ before.lookup[1].resp.kind = "error"
    /\ before.last_article = None
    /\ before.pc = "idle"
    /\ trigger.kind = "search"
    /\ search_topic = <<"q">>
    /\ pc = "run"

\* C15: no more than two st.rerun() calls follow one another, so every user
\* event is followed by at most two automatic executions before one ends
\* without asking for a rerun; and the execution after a selection whose
\* lookup is ambiguous again ends waiting for the user.
C15_FiniteRerunChain ==
    /\ chain <= 2
    /\ pc = "run" <=> chain > 0 \/ trigger.kind = "load"
    /\ /\ AfterSelection
       /\ lookup # None
       /\ lookup[1].resp.kind = "disambiguation"
       => pc = "idle" /\ chain = 0

\* C15 witness: a selected candidate resolved to ambiguity again and the
\* page waits with candidates offered.
C15_Witness ==
    /\ AfterSelection
    /\ lookup # None
    /\ lookup[1].resp.kind = "disambiguation"
    /\ pc = "idle"
    /\ options # << >>

\* The longest chain: a completed reply's rerun whose lookup returns a page.
C15_ChainOfTwo == chain = 2

\* C16: whenever an Article is loaded the search topic is not empty and is
\* the query of the lookup whose page the Article is; a step that starts
\* with an Article loaded changes the topic only by handling Initiate
\* Search, which unloads the Article.
C16_ArticleOfTopic ==
    /\ last_article # None =>
          /\ search_topic # << >>
          /\ article_query = Some(search_topic)
    /\ last_article # None /\ last_article # before.last_article =>
          /\ lookup # None
          /\ lookup[1].query = search_topic
          /\ lookup[1].resp.kind = "page"
          /\ last_article = Some(Article(lookup[1].resp))
    /\ before.last_article # None /\ search_topic # before.search_topic =>
          trigger.kind = "search" /\ last_article = None

\* C16 witness: an Article loaded for a topic that a candidate's selection
\* set, the page's title not being the topic.
C16_Witness ==
    /\ last_article # None
    /\ search_topic = <<"z">>
    /\ article_query = Some(<<"z">>)
    /\ last_article[1].title # search_topic
    /\ pc = "idle"

\* The execution st.rerun() asked for after a search with an empty query.
AfterEmptySearch ==
    /\ before.trigger.kind = "search"
    /\ before.trigger.text = << >>
    /\ before.pc = "run"

\* C17: a search with an empty query makes no lookup, neither in the step
\* that handles the button nor in the execution after it, and leaves an
\* empty topic, no Article, an empty transcript and no cached export; that
\* execution ends showing the awaiting-query message and no not-found
\* message.
C17_EmptyQuery ==
    /\ trigger.kind = "search" /\ trigger.text = << >> =>
          /\ lookup = None
          /\ search_topic = << >>
          /\ last_article = None
          /\ chat_history = << >>
          /\ pdf_buffer = None
    /\ AfterEmptySearch =>
          /\ lookup = None
          /\ search_topic = << >>
          /\ last_article = None
          /\ chat_history = << >>
          /\ pdf_buffer = None
          /\ pc = "idle"
          /\ "awaiting_query" \in shown
          /\ "not_found" \notin shown

\* C17 witness: the page after an empty search.
C17_Witness ==
    /\ AfterEmptySearch
    /\ trigger.kind = "rerun"
    /\ pc = "idle"
    /\ "awaiting_query" \in shown

\* C18: every step that handles a submitted chat message appends it to the
\* transcript as a user ChatTurn.
C18_MessageAppended ==
    trigger.kind = "chat" =>
        chat_history =
            Append(before.chat_history, [role |-> "user", text |-> trigger.text])

====
